---- MODULE Spec2Model ----
(***************************************************************************)
(* Model of the L1 batch acquisition and decoding pipeline:                *)
(*   src/src/data_acquisition/l1_client.py     (L1Client)                  *)
(*   src/src/data_acquisition/batch_fetcher.py (BatchSubmission,           *)
(*                                              BatchFetcher)              *)
(*   src/src/decoding/batch_decoder.py         (BatchDecoder)              *)
(*   src/src/main.py                           (scan, then decode loop)    *)
(*   src/config/settings.py                    (BATCH_SIZE, address)       *)
(*                                                                         *)
(* The chain is a finite map from block numbers to transaction lists.      *)
(* Only the blocks of HotBlocks carry transactions or fail to be fetched;  *)
(* every other block of a scanned range is fetched successfully and is     *)
(* empty (the second window of the range [100, 200] is an empty one).      *)
(* The store is the batch_submissions table, a sequence of rows in         *)
(* insertion order.                                                        *)
(***************************************************************************)
EXTENDS Integers, Sequences, FiniteSets, TLC

\* ------------------------------------------------------------------ bounds
\* Number of fetch_batches invocations explored.
MaxRuns == 2
\* Largest number of consecutive transient failures of one block's fetch.
MaxFails == 2
\* Number of commits that may fail for a reason other than a repeated hash.
MaxDbFaults == 1
\* Cap on the window attempts of one invocation; the loop of the source
\* needs at most two attempts for the ranges explored.
MaxAttempts == 6
\* Number of direct calls of the decoder explored.
MaxCalls == 3

\* ------------------------------------------------------- program constants
\* config/settings.py: BATCH_SIZE = 100
BATCH_SIZE == 100

\* config/settings.py: WORLD_CHAIN_ADDRESS, an address given in mixed case.
WORLD_CHAIN_ADDRESS == <<"0", "x", "A", "b">>

\* ------------------------------------------------------------ the L1 chain
\* Blocks that may hold transactions and whose fetch may fail.
HotBlocks == {100, 102, 104}
\* Blocks whose transactions are drawn from every kind (the others hold
\* either nothing or one batch submission).
RichBlocks == {100}
\* Arguments fetch_batches is invoked with.
Starts == {100, 102}
Ends == {104, 200}

\* Python None / empty string: both are falsy in `tx['to'] and ...`.
None == <<>>

\* Destinations a transaction may carry.
ToRollupExact == <<"0", "x", "A", "b">>
ToRollupLower == <<"0", "x", "a", "b">>
ToRollupUpper == <<"0", "X", "A", "B">>
ToOther == <<"0", "x", "b", "b">>

\* The kinds of transaction a block may hold: [type, to].
TxKinds ==
    { [type |-> 3, to |-> ToRollupExact],
      [type |-> 3, to |-> ToRollupLower],
      [type |-> 3, to |-> ToRollupUpper],
      [type |-> 3, to |-> ToOther],
      [type |-> 3, to |-> None],
      [type |-> 2, to |-> ToRollupExact] }

PlainKinds == { [type |-> 3, to |-> ToRollupLower] }

\* Blocks of two transactions: a transfer to the rollup followed by a
\* submission, two submissions, a submission followed by a foreign blob.
PairKinds ==
    { <<[type |-> 2, to |-> ToRollupExact], [type |-> 3, to |-> ToRollupUpper]>>,
      <<[type |-> 3, to |-> ToRollupExact], [type |-> 3, to |-> ToRollupLower]>>,
      <<[type |-> 3, to |-> ToRollupLower], [type |-> 3, to |-> ToOther]>> }

\* A transaction of block b at position i has a chain-wide unique hash; the
\* hashes of a block do not follow the positions.  A blob transaction lists
\* one versioned hash, any other transaction has no such field (read with
\* .get(..., []) by the decoder).
MkTx(b, i, k) ==
    [hash |-> b * 10 + (3 - i), type |-> k.type, to |-> k.to,
     blobVersionedHashes |-> IF k.type = 3 THEN <<b * 10 + (3 - i)>> ELSE <<>>]

\* Blob versioned hashes a decoder input may list, and what the blob storage
\* of the network holds for each: blob 1 is the RLP of the list [0x01, 0x02],
\* blob 2 is cut short (its prefix announces two bytes, one follows), blob 3
\* has been pruned.
BlobIds == {1, 2, 3}

NetBlob(h) ==
    CASE h = 1 -> [found |-> TRUE, bytes |-> <<194, 1, 2>>]
      [] h = 2 -> [found |-> TRUE, bytes |-> <<194, 1>>]
      [] OTHER -> [found |-> FALSE, bytes |-> <<>>]

\* Lists of at most two blob hashes.
BlobLists ==
    {<<>>} \cup { <<h>> : h \in BlobIds } \cup { <<h, g>> : h \in BlobIds, g \in BlobIds }

\* Dictionaries decode_batch is called with directly.
BatchDicts ==
    { [block_number |-> b, transaction_hash |-> b * 10 + 1,
       raw_data |-> [blobVersionedHashes |-> l]] : b \in {100, 102}, l \in BlobLists }

\* Byte strings _decode_blob is called with directly: a single byte, a
\* string, lists (empty, of two bytes, of a string, nested), and malformed
\* inputs (empty, cut short, trailing byte, non-canonical single byte).
BlobBytes ==
    { <<5>>, <<131, 1, 2, 255>>, <<192>>, <<194, 1, 2>>, <<195, 130, 171, 16>>,
      <<193, 192>>, <<>>, <<194, 1>>, <<192, 0>>, <<129, 5>> }

BlockChoices(b) ==
    IF b \in RichBlocks
    THEN {<<>>} \cup { <<MkTx(b, 1, k)>> : k \in TxKinds }
                \cup { <<MkTx(b, 1, p[1]), MkTx(b, 2, p[2])>> : p \in PairKinds }
    ELSE {<<>>} \cup { <<MkTx(b, 1, k)>> : k \in PlainKinds }

\* Heights the chain head may have; the head only grows.
Heads == {104, 200, 300}

\* End arguments of fetch_batches: None, or a one-element sequence holding
\* the block number given.
EndArgs == {None} \cup { <<e>> : e \in Ends }

VARIABLES
    chain,          \* HotBlocks -> sequence of transactions
    head,           \* the latest block number of the chain
    rpcFails,       \* HotBlocks -> fetches of the block that will still fail
    dbFaultsLeft,   \* store commits the environment may still fail
    store,          \* batch_submissions rows, in insertion order
    pc,             \* "idle" | "scanning" | "decoding"
    start_block,    \* fetch_batches argument
    end_block,      \* fetch_batches argument (resolved)
    current_block,  \* fetch_batches local: first block of the next window
    runs,           \* invocations of fetch_batches so far
    attempts,       \* window attempts of the current invocation
    win,            \* the last window attempt of the scan loop
    run,            \* facts about the current invocation
    unprocessed_batches,  \* main: the rows the decode loop iterates over
    di,             \* main: position of the decode loop in that list
    attempted,      \* decode attempts of the current run: [id, ok, error]
    lastCommitted,  \* last block of the last committed window, 0 if none
    ncalls,         \* direct calls of the decoder made so far
    call,           \* the last direct call: [op, input, out]
    seen            \* the direct decode_batch calls so far, in order: [input, out]

vars == <<chain, head, rpcFails, dbFaultsLeft, store, pc, start_block, end_block,
          current_block, runs, attempts, win, run, unprocessed_batches, di,
          attempted, lastCommitted, ncalls, call, seen>>

\* The variables of the direct decoder calls.
callVars == <<ncalls, call, seen>>

\* The variables of the pipeline.
pipeVars == <<chain, head, rpcFails, dbFaultsLeft, store, pc, start_block, end_block,
              current_block, runs, attempts, win, run, unprocessed_batches, di,
              attempted, lastCommitted>>

\* ------------------------------------------------------------ pure helpers
Min(a, b) == IF a <= b THEN a ELSE b

\* str.lower() on one character.
LowerChar(c) ==
    CASE c = "A" -> "a"
      [] c = "B" -> "b"
      [] c = "X" -> "x"
      [] OTHER -> c

\* str.lower()
Lower(s) == [i \in 1..Len(s) |-> LowerChar(s[i])]

\* ---------------------------------------------------------------- L1Client
\* L1Client.get_block: the RPC call raises while the block's fetch still fails.
GetBlockRaises(b) == b \in HotBlocks /\ rpcFails[b] > 0

\* block['transactions'] of a block that was fetched.
BlockTransactions(b) == IF b \in HotBlocks THEN chain[b] ELSE <<>>

\* L1Client.get_blob_transactions: the transactions of type 3 (EIP-4844).
IsBlobTx(tx) == tx.type = 3

get_blob_transactions(b) == SelectSeq(BlockTransactions(b), IsBlobTx)

\* A destination test that compares the addresses as written.
IsWorldChainTxCaseSensitive(tx) == tx.to # None /\ tx.to = WORLD_CHAIN_ADDRESS

\* The destination test of get_world_chain_batches:
\*   tx['to'] and tx['to'].lower() == WORLD_CHAIN_ADDRESS.lower()
IsWorldChainTx(tx) == tx.to # None /\ Lower(tx.to) = Lower(WORLD_CHAIN_ADDRESS)

\* The dictionary appended to `batches` for one transaction.
MkBatch(b, tx) == [block_number |-> b, transaction_hash |-> tx.hash, raw_data |-> tx]

\* The body of the per-block try: the batches of block b, or nothing when
\* the fetch raised (the except clause logs and continues).
BlockBatches(b) ==
    IF GetBlockRaises(b)
    THEN <<>>
    ELSE LET txs == SelectSeq(get_blob_transactions(b), IsWorldChainTx)
         IN  [i \in 1..Len(txs) |-> MkBatch(b, txs[i])]

\* L1Client.get_world_chain_batches(start_block, end_block): the for loop
\* over range(start_block, end_block + 1) appends the batches of each block
\* in ascending block order.  A block outside HotBlocks is fetched and adds
\* nothing, so the loop is followed over the hot blocks of the range.
RECURSIVE BatchesOfBlocks(_)
BatchesOfBlocks(S) ==
    IF S = {} THEN <<>>
    ELSE LET b == CHOOSE x \in S : \A y \in S : x <= y
         IN  BlockBatches(b) \o BatchesOfBlocks(S \ {b})

get_world_chain_batches(lo, hi) ==
    BatchesOfBlocks({b \in HotBlocks : lo <= b /\ b <= hi})

\* L1Client.get_latest_block(): w3.eth.block_number
get_latest_block == head

\* Calls of get_latest_block made by `if end_block is None: end_block =
\* get_latest_block()`, the first statement of fetch_batches and of
\* get_world_chain_batches, for the end argument e.
LatestQueries(e) == IF e = None THEN 1 ELSE 0

\* The end block that statement leaves in end_block.
ResolveEnd(e) == IF e = None THEN get_latest_block ELSE e[1]

\* The blocks get_world_chain_batches(lo, hi) requests from the chain: one
\* get_block for each block_num of range(lo, hi + 1), without retry.
RequestedBlocks(lo, hi) == lo..hi

\* The blocks of [lo, hi] whose fetch raises in this pass.
FailedBlocks(lo, hi) == {b \in HotBlocks : lo <= b /\ b <= hi /\ rpcFails[b] > 0}

\* One fetch of every block of [lo, hi] uses up one failure of each.
AfterFetch(lo, hi) ==
    [b \in HotBlocks |->
        IF lo <= b /\ b <= hi /\ rpcFails[b] > 0 THEN rpcFails[b] - 1 ELSE rpcFails[b]]

\* ------------------------------------------------------------ BatchFetcher
StoredHashes(st) == {st[i].transaction_hash : i \in 1..Len(st)}

\* A transaction_hash column without unique=True rejects nothing.
UniqueViolationUnchecked(st, batches) == FALSE

\* BatchSubmission.transaction_hash is unique=True: the flush of the commit
\* raises IntegrityError when a pending row repeats a stored or pending hash.
UniqueViolation(st, batches) ==
    \/ \E i \in 1..Len(batches) : batches[i].transaction_hash \in StoredHashes(st)
    \/ \E i, j \in 1..Len(batches) :
          i # j /\ batches[i].transaction_hash = batches[j].transaction_hash

\* The rows session.add + commit insert: ids follow the rows present,
\* processed defaults to 0 (the timestamp column plays no part here).
Insert(st, batches) ==
    st \o [i \in 1..Len(batches) |->
             [id |-> Len(st) + i,
              block_number |-> batches[i].block_number,
              transaction_hash |-> batches[i].transaction_hash,
              raw_data |-> batches[i].raw_data,
              processed |-> 0]]

\* A rollback that keeps the rows of the window whose hash was not stored.
RollbackKeepsNew(st, batches) ==
    Insert(st, SelectSeq(batches,
                         LAMBDA b : b.transaction_hash \notin StoredHashes(st)))

\* session.rollback() after a commit that raised: the rows added for the
\* window are discarded, the table is as it was before the window.
Rollback(st, batches) == st

\* A window cut at the chain head as it is when the window starts.
BatchEndAtHead(cur, end) == Min(cur + BATCH_SIZE - 1, head)

\* batch_end = min(current_block + BATCH_SIZE - 1, end_block)
BatchEnd(cur, end) == Min(cur + BATCH_SIZE - 1, end)

\* A loop that continues at the last block of the committed window.
NextOnSuccessAtBatchEnd(cur, end) == BatchEnd(cur, end)

\* current_block = batch_end + 1
NextOnSuccess(cur, end) == BatchEnd(cur, end) + 1

\* An except clause that leaves current_block alone (retries the window).
NextOnFailureSameStart(cur) == cur

\* An except clause that steps a window back.
NextOnFailureRewind(cur) == cur - BATCH_SIZE

\* except: current_block += BATCH_SIZE
NextOnFailure(cur) == cur + BATCH_SIZE

\* BatchFetcher.get_unprocessed_batches: filter_by(processed=0).all(); the
\* query has no ORDER BY, the rows come back in the order of their ids.
get_unprocessed_batches(st) == SelectSeq(st, LAMBDA r : r.processed = 0)

\* A mark_as_processed that marks every row up to the given id.
mark_as_processed_upto(st, batch_id) ==
    [i \in 1..Len(st) |->
        IF st[i].id <= batch_id THEN [st[i] EXCEPT !.processed = 1] ELSE st[i]]

\* BatchFetcher.mark_as_processed(batch_id): the row of that id, when there
\* is one, gets processed = 1.
mark_as_processed(st, batch_id) ==
    [i \in 1..Len(st) |->
        IF st[i].id = batch_id THEN [st[i] EXCEPT !.processed = 1] ELSE st[i]]

\* BatchFetcher.export_batches(output_file): the list written to the file,
\* one entry for every row of the table, in the order of the query (the
\* timestamp field of the entries is left out).
export_batches(st) ==
    [i \in 1..Len(st) |->
        [block_number |-> st[i].block_number,
         transaction_hash |-> st[i].transaction_hash,
         raw_data |-> st[i].raw_data]]

\* ------------------------------------------------------------ BatchDecoder
\* Outcomes of a call: a returned value or a raised exception.
Return(v) == [ok |-> TRUE, error |-> "", value |-> v]
Raise(e) == [ok |-> FALSE, error |-> e, value |-> <<>>]

\* rlp.decode, strict: one item, canonical, with nothing after it.  A string
\* is [t |-> "s", v |-> bytes], a list [t |-> "l", v |-> items].  Inputs are
\* shorter than 56 bytes, for which every long-form prefix (0xb8..0xbf,
\* 0xf8..0xff) is either truncated or not canonical.
RECURSIVE RlpItem(_, _)
RECURSIVE RlpItems(_, _, _)
\* The item that starts at position p: [ok, val, next].
RlpItem(b, p) ==
    IF p > Len(b) THEN [ok |-> FALSE, val |-> <<>>, next |-> p]
    ELSE LET b0 == b[p]
             n == IF b0 < 192 THEN b0 - 128 ELSE b0 - 192
         IN  IF b0 < 128
             THEN [ok |-> TRUE, val |-> [t |-> "s", v |-> <<b0>>], next |-> p + 1]
             ELSE IF b0 > 247 \/ (b0 > 183 /\ b0 < 192) \/ p + n > Len(b)
             THEN [ok |-> FALSE, val |-> <<>>, next |-> p]
             ELSE IF b0 < 192
             THEN [ok |-> ~(n = 1 /\ b[p + 1] < 128),
                   val |-> [t |-> "s", v |-> SubSeq(b, p + 1, p + n)],
                   next |-> p + n + 1]
             ELSE LET items == RlpItems(b, p + 1, p + n)
                  IN  [ok |-> items.ok, val |-> [t |-> "l", v |-> items.vals],
                       next |-> p + n + 1]

\* The items that fill positions p..last exactly: [ok, vals].
RlpItems(b, p, last) ==
    IF p > last THEN [ok |-> TRUE, vals |-> <<>>]
    ELSE LET it == RlpItem(b, p)
         IN  IF ~it.ok \/ it.next > last + 1
             THEN [ok |-> FALSE, vals |-> <<>>]
             ELSE LET rest == RlpItems(b, it.next, last)
                  IN  [ok |-> rest.ok, vals |-> <<it.val>> \o rest.vals]

\* BatchDecoder.decode_rlp(data): rlp.decode(data), DecodingError re-raised.
decode_rlp(data) ==
    LET it == RlpItem(data, 1)
    IN  IF it.ok /\ it.next = Len(data) + 1
        THEN Return(it.val)
        ELSE Raise("DecodingError")

HexDigits ==
    <<"0", "1", "2", "3", "4", "5", "6", "7", "8", "9", "a", "b", "c", "d", "e", "f">>

\* eth_utils.to_hex of a bytes value: "0x" and two digits for each byte.
RECURSIVE HexOfBytes(_)
HexOfBytes(bs) ==
    IF bs = <<>> THEN <<>>
    ELSE <<HexDigits[(bs[1] \div 16) + 1], HexDigits[(bs[1] % 16) + 1]>>
            \o HexOfBytes(Tail(bs))

to_hex_bytes(bs) == <<"0", "x">> \o HexOfBytes(bs)

\* eth_utils.to_hex of an int below 256: hex(n), without a leading zero.
to_hex_int(n) ==
    <<"0", "x">> \o (IF n < 16 THEN <<HexDigits[n + 1]>>
                     ELSE <<HexDigits[(n \div 16) + 1], HexDigits[(n % 16) + 1]>>)

\* BatchDecoder._decode_blob(blob_content).  Iterating a decoded list gives
\* its items (to_hex raises TypeError on a nested list); iterating a decoded
\* byte string gives its bytes as ints.
_decode_blob(blob_content) ==
    LET d == decode_rlp(blob_content)
    IN  IF ~d.ok THEN d
        ELSE IF d.value.t = "l" /\ \E i \in 1..Len(d.value.v) : d.value.v[i].t = "l"
        THEN Raise("TypeError")
        ELSE Return([raw_data |-> to_hex_bytes(blob_content),
                     decoded_data |->
                        [i \in 1..Len(d.value.v) |->
                            IF d.value.t = "l" THEN to_hex_bytes(d.value.v[i].v)
                                               ELSE to_hex_int(d.value.v[i])],
                     size |-> Len(blob_content)])

\* BatchDecoder._fetch_blob_content(blob_hash): the placeholder returns b''.
_fetch_blob_content(blob_hash) == <<>>

\* A BatchSubmission row is an ORM object, not a dictionary: subscripting it
\* (batch_data['raw_data']) raises TypeError.
IsOrmRow(batch_data) == "id" \in DOMAIN batch_data

\* The for loop of decode_batch over the blob hashes from position i on:
\* the decoded blobs appended, or the exception of the first blob that fails.
\* A blob whose content is falsy (b'' or None) is passed over.
RECURSIVE DecodeBlobs(_, _)
DecodeBlobs(blob_data, i) ==
    IF i > Len(blob_data) THEN Return(<<>>)
    ELSE LET blob_content == _fetch_blob_content(blob_data[i])
             one == IF blob_content = <<>> THEN Return(<<>>)
                    ELSE LET d == _decode_blob(blob_content)
                         IN  IF d.ok THEN Return(<<d.value>>) ELSE d
         IN  IF ~one.ok THEN one
             ELSE LET rest == DecodeBlobs(blob_data, i + 1)
                  IN  IF rest.ok THEN Return(one.value \o rest.value) ELSE rest

\* BatchDecoder.decode_batch(batch_data)
decode_batch(batch_data) ==
    IF IsOrmRow(batch_data) THEN Raise("TypeError")
    ELSE LET blob_data == batch_data.raw_data.blobVersionedHashes
         IN  IF blob_data = <<>> THEN Raise("ValueError")
             ELSE LET blobs == DecodeBlobs(blob_data, 1)
                  IN  IF ~blobs.ok THEN blobs
                      ELSE Return([block_number |-> batch_data.block_number,
                                   transaction_hash |-> batch_data.transaction_hash,
                                   blobs |-> blobs.value])

\* BatchDecoder.extract_l2_transactions(decoded_batch): the loop body is
\* `pass`, the list returned is empty.
extract_l2_transactions(decoded_batch) == <<>>

NoCall == [op |-> "", input |-> <<>>, out |-> Return(<<>>)]

NoWindow ==
    [lo |-> 0, hi |-> -1, failed |-> {}, batches |-> <<>>,
     committed |-> FALSE, fault |-> FALSE]

TypeOK ==
    /\ chain \in [HotBlocks -> UNION {BlockChoices(b) : b \in HotBlocks}]
    /\ rpcFails \in [HotBlocks -> 0..MaxFails]
    /\ dbFaultsLeft \in 0..MaxDbFaults
    /\ head \in Heads
    /\ pc \in {"idle", "scanning", "decoding"}
    /\ di \in 1..(Len(unprocessed_batches) + 1)
    /\ lastCommitted \in Nat
    /\ ncalls \in 0..MaxCalls
    /\ runs \in 0..MaxRuns
    /\ attempts \in 0..MaxAttempts

Init ==
    /\ chain \in {c \in [HotBlocks -> UNION {BlockChoices(b) : b \in HotBlocks}] :
                    \A b \in HotBlocks : c[b] \in BlockChoices(b)}
    /\ head = 200
    /\ rpcFails \in [HotBlocks -> 0..MaxFails]
    /\ dbFaultsLeft = MaxDbFaults
    /\ store = <<>>
    /\ pc = "idle"
    /\ start_block = 0
    /\ end_block = 0
    /\ current_block = 0
    /\ runs = 0
    /\ attempts = 0
    /\ win = NoWindow
    /\ run = [failed |-> {}, faulted |-> FALSE, rejected |-> FALSE,
              failsAtStart |-> rpcFails, storedAtStart |-> {},
              requested |-> <<>>, endArg |-> None, latestQueries |-> 0]
    /\ unprocessed_batches = <<>>
    /\ di = 1
    /\ attempted = <<>>
    /\ lastCommitted = 0
    /\ ncalls = 0
    /\ call = NoCall
    /\ seen = <<>>

\* main, once the while loop of fetch_batches has ended with the table st:
\* get_unprocessed_batches() is called and the decode loop is entered.
AfterScan(st) ==
    /\ unprocessed_batches' = get_unprocessed_batches(st)
    /\ pc' = IF get_unprocessed_batches(st) = <<>> THEN "idle" ELSE "decoding"

\* main calls fetch_batches(start_block, end_block): up to the first test of
\* the while loop.
StartFetch(s, e) ==
    /\ pc = "idle"
    /\ runs < MaxRuns
    /\ runs' = runs + 1
    /\ start_block' = s
    /\ end_block' = ResolveEnd(e)
    /\ current_block' = s
    /\ attempts' = 0
    /\ win' = NoWindow
    /\ run' = [failed |-> {}, faulted |-> FALSE, rejected |-> FALSE,
               failsAtStart |-> rpcFails, storedAtStart |-> StoredHashes(store),
               requested |-> <<>>, endArg |-> e,
               latestQueries |-> LatestQueries(e)]
    /\ di' = 1
    /\ attempted' = <<>>
    /\ IF s <= ResolveEnd(e) THEN pc' = "scanning" /\ unprocessed_batches' = <<>>
                              ELSE AfterScan(store)
    /\ UNCHANGED <<chain, head, rpcFails, dbFaultsLeft, store, lastCommitted>>
    /\ UNCHANGED callVars

\* The assignments of one iteration of the while loop, given the window
\* [lo, hi], the batches the client returned and whether the commit passed.
WindowEffect(lo, hi, batches, ok, dbFault) ==
    LET next == IF ok THEN NextOnSuccess(current_block, end_block)
                      ELSE NextOnFailure(current_block)
    IN  /\ rpcFails' = AfterFetch(lo, hi)
        /\ store' = IF ok THEN Insert(store, batches) ELSE Rollback(store, batches)
        /\ current_block' = next
        /\ lastCommitted' = IF ok THEN hi ELSE lastCommitted
        /\ IF next <= end_block
           THEN pc' = "scanning" /\ UNCHANGED unprocessed_batches
           ELSE AfterScan(IF ok THEN Insert(store, batches)
                                ELSE Rollback(store, batches))
        /\ win' = [lo |-> lo, hi |-> hi, failed |-> FailedBlocks(lo, hi),
                   batches |-> batches, committed |-> ok, fault |-> dbFault]
        /\ run' = [run EXCEPT !.failed = @ \cup FailedBlocks(lo, hi),
                              !.faulted = @ \/ dbFault,
                              !.rejected = @ \/ ~ok,
                              !.requested = Append(@, [lo |-> lo, hi |-> hi]),
                              !.latestQueries = @ + LatestQueries(<<hi>>)]

\* One iteration of the while loop of fetch_batches: the window is fetched,
\* its batches are added and committed; a failed commit is rolled back and
\* logged.  dbFault: the commit raises for a reason other than the unique
\* constraint (storage unavailable, a raw_data value the JSON column cannot
\* serialise).
WindowStep(dbFault) ==
    /\ pc = "scanning"
    /\ current_block <= end_block
    /\ attempts < MaxAttempts
    /\ dbFault => dbFaultsLeft > 0
    /\ \E hi \in {BatchEnd(current_block, end_block)} :
       \E batches \in {get_world_chain_batches(current_block, hi)} :
       \E ok \in {~dbFault /\ ~UniqueViolation(store, batches)} :
          WindowEffect(current_block, hi, batches, ok, dbFault)
    /\ dbFaultsLeft' = IF dbFault THEN dbFaultsLeft - 1 ELSE dbFaultsLeft
    /\ attempts' = attempts + 1
    /\ UNCHANGED <<chain, head, start_block, end_block, runs, di, attempted>>
    /\ UNCHANGED callVars

\* A decode loop that stops at the first row that raises.
NextIndexStopAtFailure(i, n) == n + 1

\* Position of the decode loop after an iteration that raised: the except
\* clause logs and continues with the next row.
NextIndexAfterFailure(i, n) == i + 1

\* A decode loop that, when decoding a row raised, marks the row after it.
StoreAfterFailureMarkedNext(st, batch_id) == mark_as_processed(st, batch_id + 1)

\* A decode loop that marks a row as processed although decoding it raised.
StoreAfterFailureMarked(st, batch_id) == mark_as_processed(st, batch_id)

\* Table after an iteration of the decode loop that raised on row batch_id:
\* the except clause writes nothing.
StoreAfterFailure(st, batch_id) == st

\* One iteration of the decode loop of main over the rows fetched before the
\* loop: decode_batch(batch), then (metrics, filtering and reconstruction,
\* which write nothing to the table) mark_as_processed(batch.id); any
\* exception is logged and the loop continues.
DecodeStep ==
    /\ pc = "decoding"
    /\ di <= Len(unprocessed_batches)
    /\ \E batch \in {unprocessed_batches[di]} :
       \E out \in {decode_batch(batch)} :
       \E n \in {Len(unprocessed_batches)} :
       \E next \in {IF out.ok THEN di + 1 ELSE NextIndexAfterFailure(di, n)} :
          /\ store' = IF out.ok THEN mark_as_processed(store, batch.id)
                                ELSE StoreAfterFailure(store, batch.id)
          /\ attempted' = Append(attempted,
                                 [id |-> batch.id, ok |-> out.ok, error |-> out.error])
          /\ di' = next
          /\ pc' = IF next <= n THEN "decoding" ELSE "idle"
    /\ UNCHANGED <<chain, head, rpcFails, dbFaultsLeft, start_block, end_block,
                   current_block, runs, attempts, win, run, unprocessed_batches,
                   lastCommitted>>
    /\ UNCHANGED callVars

Next ==
    \/ \E s \in Starts, e \in Ends : StartFetch(s, <<e>>)
    \/ \E f \in BOOLEAN : WindowStep(f)
    \/ DecodeStep

Spec == Init /\ [][Next]_vars

\* The while loop runs to its end once fetch_batches is called.
FairSpec == Spec /\ WF_vars(\E f \in BOOLEAN : WindowStep(f))

\* ------------------------------------------------ the decoder on its own
\* BatchDecoder has no state of its own (__init__ sets a logger only); its
\* methods are called here directly, on dictionaries and byte strings, with
\* the pipeline at rest.
DecoderInit ==
    /\ chain = [b \in HotBlocks |-> <<>>]
    /\ head = 200
    /\ rpcFails = [b \in HotBlocks |-> 0]
    /\ dbFaultsLeft = MaxDbFaults
    /\ store = <<>>
    /\ pc = "idle"
    /\ start_block = 0
    /\ end_block = 0
    /\ current_block = 0
    /\ runs = 0
    /\ attempts = 0
    /\ win = NoWindow
    /\ run = [failed |-> {}, faulted |-> FALSE, rejected |-> FALSE,
              failsAtStart |-> rpcFails, storedAtStart |-> {},
              requested |-> <<>>, endArg |-> None, latestQueries |-> 0]
    /\ unprocessed_batches = <<>>
    /\ di = 1
    /\ attempted = <<>>
    /\ lastCommitted = 0
    /\ ncalls = 0
    /\ call = NoCall
    /\ seen = <<>>

\* A call decode_batch(d).
DecodeBatchCall(d) ==
    /\ ncalls < MaxCalls
    /\ \E out \in {decode_batch(d)} :
          /\ call' = [op |-> "decode_batch", input |-> d, out |-> out]
          /\ seen' = Append(seen, [input |-> d, out |-> out])
    /\ ncalls' = ncalls + 1
    /\ UNCHANGED pipeVars

\* A call _decode_blob(bs).
DecodeBlobCall(bs) ==
    /\ ncalls < MaxCalls
    /\ call' = [op |-> "_decode_blob", input |-> bs, out |-> _decode_blob(bs)]
    /\ ncalls' = ncalls + 1
    /\ UNCHANGED seen
    /\ UNCHANGED pipeVars

DecoderNext ==
    \/ \E d \in BatchDicts : DecodeBatchCall(d)
    \/ \E bs \in BlobBytes : DecodeBlobCall(bs)

DecoderSpec == DecoderInit /\ [][DecoderNext]_vars

\* ------------------------------------------- the fetcher called directly
\* The pipeline on a chain whose head grows, with fetch_batches also called
\* without an end block, and with mark_as_processed and export_batches
\* called between runs.
FetcherChains ==
    { [b \in HotBlocks |-> IF b = 100 THEN <<MkTx(b, 1, k)>> ELSE <<>>] : k \in PlainKinds }
    \cup
    { [b \in HotBlocks |->
         IF b = 100 THEN <<MkTx(b, 1, p[1]), MkTx(b, 2, p[2])>>
         ELSE <<MkTx(b, 1, k)>>] : p \in {q \in PairKinds : q[1].type = 3 /\ q[2].to # ToOther},
                                  k \in PlainKinds }

FetcherInit ==
    /\ chain \in FetcherChains
    /\ head = 104
    /\ rpcFails = [b \in HotBlocks |-> 0]
    /\ dbFaultsLeft = MaxDbFaults
    /\ store = <<>>
    /\ pc = "idle"
    /\ start_block = 0
    /\ end_block = 0
    /\ current_block = 0
    /\ runs = 0
    /\ attempts = 0
    /\ win = NoWindow
    /\ run = [failed |-> {}, faulted |-> FALSE, rejected |-> FALSE,
              failsAtStart |-> rpcFails, storedAtStart |-> {},
              requested |-> <<>>, endArg |-> None, latestQueries |-> 0]
    /\ unprocessed_batches = <<>>
    /\ di = 1
    /\ attempted = <<>>
    /\ lastCommitted = 0
    /\ ncalls = 0
    /\ call = NoCall
    /\ seen = <<>>

\* The chain head grows (new blocks are mined), at any moment.
HeadGrows ==
    /\ \E h \in Heads : h > head /\ head' = h
    /\ UNCHANGED <<chain, rpcFails, dbFaultsLeft, store, pc, start_block,
                   end_block, current_block, runs, attempts, win, run,
                   unprocessed_batches, di, attempted, lastCommitted>>
    /\ UNCHANGED callVars

\* A call mark_as_processed(batch_id) between two runs.
MarkCall(batch_id) ==
    /\ pc = "idle"
    /\ ncalls < MaxCalls
    /\ store' = mark_as_processed(store, batch_id)
    /\ call' = [op |-> "mark_as_processed", input |-> batch_id, out |-> Return(<<>>)]
    /\ ncalls' = ncalls + 1
    /\ UNCHANGED <<chain, head, rpcFails, dbFaultsLeft, pc, start_block,
                   end_block, current_block, runs, attempts, win, run,
                   unprocessed_batches, di, attempted, lastCommitted, seen>>

\* A call export_batches(output_file) between two runs.
ExportCall ==
    /\ pc = "idle"
    /\ ncalls < MaxCalls
    /\ call' = [op |-> "export_batches", input |-> <<>>,
                out |-> Return(export_batches(store))]
    /\ ncalls' = ncalls + 1
    /\ UNCHANGED seen
    /\ UNCHANGED pipeVars

FetcherNext ==
    \/ \E s \in Starts, e \in EndArgs : StartFetch(s, e)
    \/ \E f \in BOOLEAN : WindowStep(f)
    \/ DecodeStep
    \/ HeadGrows
    \/ \E batch_id \in 1..(Len(store) + 1) : MarkCall(batch_id)
    \/ ExportCall

FetcherSpec == FetcherInit /\ [][FetcherNext]_vars

\* ------------------------------------------------- vocabulary of the claims
\* Two addresses are equal ignoring letter case (stated without lower()).
SameLetter(c, d) ==
    \/ c = d
    \/ {c, d} \in {{"a", "A"}, {"b", "B"}, {"x", "X"}}

EqualIgnoringCase(a, b) ==
    /\ Len(a) = Len(b)
    /\ \A i \in 1..Len(a) : SameLetter(a[i], b[i])

\* A batch submission in the words of the specification: a blob transaction
\* whose destination is present and is the rollup address.
IsSubmission(tx) ==
    /\ tx.type = 3
    /\ tx.to # <<>>
    /\ EqualIgnoringCase(tx.to, WORLD_CHAIN_ADDRESS)

\* Hashes of the batch submissions the chain holds in block b.
SubmissionsOf(b) ==
    IF b \in HotBlocks
    THEN {chain[b][i].hash : i \in {j \in 1..Len(chain[b]) : IsSubmission(chain[b][j])}}
    ELSE {}

\* Hashes of the batch submissions of the blocks lo..hi.
SubmissionsIn(lo, hi) ==
    UNION {SubmissionsOf(b) : b \in {c \in HotBlocks : lo <= c /\ c <= hi}}

\* A window has been attempted in the current invocation.
WindowAttempted == win.lo <= win.hi

\* fetch_batches has returned.
RunCompleted == pc # "scanning" /\ runs > 0

BatchHashes(batches) == {batches[i].transaction_hash : i \in 1..Len(batches)}

\* ------------------------------------------------------------------ claims

\* C1: in every reachable state of the store no two rows carry the same
\* transaction hash, whatever ranges fetch_batches scans and re-scans.
C1_UniqueTxHash ==
    \A i, j \in 1..Len(store) :
        i # j => store[i].transaction_hash # store[j].transaction_hash

\* C1 witness: a second invocation fetched a transaction that is already
\* stored, while the store holds at least two rows.
C1_Witness ==
    /\ runs = 2
    /\ WindowAttempted
    /\ BatchHashes(win.batches) \cap run.storedAtStart # {}
    /\ Len(store) >= 2

\* C2 (as claimed): once fetch_batches has returned from a run in which
\* every block fetch and every commit of the environment succeeded, every
\* batch submission of [start, end] is in the store.
C2_CleanRunStoresAll ==
    (RunCompleted /\ run.failed = {} /\ ~run.faulted)
        => SubmissionsIn(start_block, end_block) \subseteq StoredHashes(store)

\* C3 (as claimed): the scan position is past a window only if the window's
\* records are committed, and a window that did not complete leaves the
\* scan position at its start.
C3_AdvanceOnlyAfterCommit ==
    WindowAttempted =>
        /\ current_block > win.hi
              => BatchHashes(win.batches) \subseteq StoredHashes(store)
        /\ ~win.committed => current_block = win.lo

\* C4 (as claimed): after a window in which the fetch of a block failed,
\* the scan position does not exceed that block.
C4_NotPastFailedBlock ==
    WindowAttempted => \A b \in win.failed : current_block <= b

\* C5 (as claimed): the window attempted after a failed window has the
\* same start block.
C5_RetrySameStart ==
    [][(WindowAttempted /\ ~win.committed /\ attempts' = attempts + 1)
          => win'.lo = win.lo]_vars

\* C6: fetch_batches terminates for every range and every pattern of
\* failures, after at most as many window attempts as the range has blocks.
C6_ScanTerminates ==
    /\ [](attempts <= end_block - start_block + 1)
    /\ (pc = "scanning") ~> (pc # "scanning")

\* C6 witness: an invocation has returned after block-fetch failures and a
\* failed window.
C6_Witness ==
    /\ RunCompleted
    /\ run.failed # {}
    /\ run.rejected
    /\ attempts = 2

\* C7 (as claimed): scanning [100, 104] on an empty store, where the fetch
\* of block 102 fails twice and then succeeds and nothing else fails,
\* stores the submissions of all five blocks and ends past block 104.
C7_TransientFailureNotLost ==
    ( /\ RunCompleted
      /\ start_block = 100 /\ end_block = 104
      /\ run.storedAtStart = {}
      /\ ~run.faulted
      /\ run.failsAtStart = [b \in HotBlocks |-> IF b = 102 THEN 2 ELSE 0] )
        => /\ SubmissionsIn(100, 104) \subseteq StoredHashes(store)
           /\ current_block = 105

\* C8 (as claimed): after a window in which the fetch of some block failed
\* (and the environment did not fail the commit), the submissions of every
\* block of the window that was fetched are among the batches returned and
\* in the store.
C8_OtherBlocksStored ==
    (WindowAttempted /\ win.failed # {} /\ ~win.fault)
        => \A b \in {c \in HotBlocks : win.lo <= c /\ c <= win.hi} \ win.failed :
              /\ SubmissionsOf(b) \subseteq BatchHashes(win.batches)
              /\ SubmissionsOf(b) \subseteq StoredHashes(store)

\* C9: a record is created for a transaction of a scanned block exactly
\* when it is a blob transaction (type 3) whose destination is present and
\* equals the rollup address ignoring case; the record names the block and
\* the transaction.
C9_RecordIffBlobToRollup ==
    WindowAttempted =>
        \A b \in {c \in HotBlocks : win.lo <= c /\ c <= win.hi} \ win.failed :
            \A i \in 1..Len(chain[b]) :
                IsSubmission(chain[b][i])
                    <=> \E k \in 1..Len(win.batches) :
                          /\ win.batches[k].transaction_hash = chain[b][i].hash
                          /\ win.batches[k].block_number = b

\* C9 witness: a scanned block holds a blob transaction whose destination
\* differs from the configured address in letter case only, and the record
\* for it is stored.
C9_Witness ==
    /\ WindowAttempted
    /\ 100 \notin win.failed
    /\ win.lo = 100
    /\ Len(chain[100]) = 1
    /\ chain[100][1].type = 3
    /\ chain[100][1].to = ToRollupUpper
    /\ chain[100][1].hash \in StoredHashes(store)

\* C10: during an execution of the scan loop the scan position never
\* decreases (no step of the loop moves it to a lower block).
C10_ScanPositionMonotonic ==
    [][pc = "scanning" => current_block' >= current_block]_vars

\* C10 witness: the loop has moved the scan position after a failed window.
C10_Witness ==
    /\ WindowAttempted
    /\ ~win.committed
    /\ current_block > win.lo

\* ------------------------------------------------------------------- C11
\* C11. Scan progress is persisted and resumed: an invocation that follows an
\* earlier one begins its scan at the block after the last block of the last
\* committed window, not again at the start block it is given.
C11_ResumesAfterLastCommitted ==
    (runs >= 2 /\ pc = "scanning" /\ attempts = 0 /\ lastCommitted > 0)
        => current_block = lastCommitted + 1

\* ------------------------------------------------------------------- C12
\* Ids of the rows a decode attempt was made on, in the order of the attempts.
AttemptedIds == [i \in 1..Len(attempted) |-> attempted[i].id]

\* Ids of the rows that were pending when the decode phase started.
PendingAtStartIds ==
    [i \in 1..Len(unprocessed_batches) |-> unprocessed_batches[i].id]

\* The decode phase of the current run has ended.
DecodePhaseEnded == pc = "idle" /\ runs > 0

\* C12. A failure on one record does not stop the decode phase: the attempts
\* made so far are on the first records that were pending at the start of the
\* phase, each once, and when the phase has ended every such record has been
\* attempted exactly once, whatever the outcome of the records before it.
C12_EveryPendingAttemptedOnce ==
    /\ Len(attempted) <= Len(unprocessed_batches)
    /\ AttemptedIds = SubSeq(PendingAtStartIds, 1, Len(attempted))
    /\ Cardinality({AttemptedIds[i] : i \in 1..Len(attempted)}) = Len(attempted)
    /\ DecodePhaseEnded => AttemptedIds = PendingAtStartIds

\* A phase has ended in which the first of several pending records failed.
C12_Witness ==
    /\ DecodePhaseEnded
    /\ Len(unprocessed_batches) >= 2
    /\ ~attempted[1].ok
    /\ Len(attempted) = Len(unprocessed_batches)

\* ------------------------------------------------------------------- C13
\* The rows of the table that have the given id.
RowsOf(st, batch_id) == {i \in 1..Len(st) : st[i].id = batch_id}

\* The row of that id is among the rows get_unprocessed_batches returns.
IsPending(st, batch_id) ==
    \E i \in 1..Len(get_unprocessed_batches(st)) :
        get_unprocessed_batches(st)[i].id = batch_id

\* C13. A record whose decode failed is given a state other than pending and
\* is no longer returned among the pending records; a record whose decode
\* succeeded is marked as decoded.
C13_FailedMarkedFailed ==
    \A i \in 1..Len(attempted) :
        IF attempted[i].ok
        THEN \A j \in RowsOf(store, attempted[i].id) : store[j].processed = 1
        ELSE ~IsPending(store, attempted[i].id)

\* ------------------------------------------------------------------- C14
\* C14. When a run of the pipeline (scan, then decode) has finished, no
\* stored record is still pending and the scan position is past the end
\* block of the run.
C14_RunEndsWithNothingPending ==
    DecodePhaseEnded =>
        /\ get_unprocessed_batches(store) = <<>>
        /\ current_block > end_block

\* ------------------------------------------------------------------- C15
\* The content of some blob of the row cannot be obtained.
BlobUnavailable(row) ==
    \E i \in 1..Len(row.raw_data.blobVersionedHashes) :
        _fetch_blob_content(row.raw_data.blobVersionedHashes[i]) = <<>>

\* C15. A record with a blob whose content cannot be obtained is kept pending
\* by the decode phase: after an attempt on it the record is still stored and
\* still pending, and a run that has ended has attempted (retried) every
\* stored record of that kind.
C15_UnavailableBlobKeptPending ==
    /\ \A i \in 1..Len(attempted) :
          BlobUnavailable(unprocessed_batches[i]) =>
              /\ RowsOf(store, attempted[i].id) # {}
              /\ \A j \in RowsOf(store, attempted[i].id) : store[j].processed = 0
    /\ DecodePhaseEnded =>
          \A j \in 1..Len(store) :
              BlobUnavailable(store[j]) =>
                  \E i \in 1..Len(attempted) : attempted[i].id = store[j].id

\* A second run has ended in which a record stored by the first run, with a
\* blob that cannot be obtained, was attempted again.
C15_Witness ==
    /\ DecodePhaseEnded
    /\ runs = 2
    /\ \E i \in 1..Len(attempted) :
          /\ BlobUnavailable(unprocessed_batches[i])
          /\ unprocessed_batches[i].transaction_hash \in run.storedAtStart

\* ------------------------------------------------------------------- C20
\* Row r comes no later than row q by block number, then transaction hash.
BlockThenHashOrder(r, q) ==
    \/ r.block_number < q.block_number
    \/ r.block_number = q.block_number /\ r.transaction_hash <= q.transaction_hash

\* C20. The pending records are returned, and decoded, in ascending order of
\* block number, ties broken by transaction hash.
C20_PendingInBlockHashOrder ==
    \A i \in 1..Len(unprocessed_batches) :
        \A j \in i..Len(unprocessed_batches) :
            BlockThenHashOrder(unprocessed_batches[i], unprocessed_batches[j])

\* ------------------------------------------------------------- C16, C17
\* The last direct call was decode_batch on a dictionary.
DecodeBatchCalled == call.op = "decode_batch"

\* Blob hashes listed by the input of the last decode_batch call.
CalledHashes == call.input.raw_data.blobVersionedHashes

\* No blob bytes are present for the input of the last call: no hash is
\* listed, or content is obtained for none of the listed hashes.
NoBlobBytes ==
    \A i \in 1..Len(CalledHashes) : _fetch_blob_content(CalledHashes[i]) = <<>>

\* C16. decode_batch fails with an error whenever no blob bytes are present,
\* both when no blob hash is listed and when hashes are listed but content is
\* obtained for none of them; it returns no decoded batch in those cases.
C16_NoBlobBytesRaises ==
    (DecodeBatchCalled /\ NoBlobBytes) => ~call.out.ok

\* The bytes the blob storage holds for hash h are malformed: decoding them
\* fails.
Malformed(h) == NetBlob(h).found /\ ~decode_rlp(NetBlob(h).bytes).ok

\* C17. If the bytes of any blob of the record are malformed, decode_batch as
\* a whole fails and returns no decoded batch, also when blobs listed before
\* it decode.
C17_MalformedBlobRaises ==
    (DecodeBatchCalled /\ \E i \in 1..Len(CalledHashes) : Malformed(CalledHashes[i]))
        => ~call.out.ok

\* ------------------------------------------------------------------- C24
\* The step is an iteration of the scan loop whose commit raised.
FailedWindowStep == attempts' = attempts + 1 /\ ~win'.committed

\* C24. A window is stored all-or-nothing: an iteration of the scan loop
\* whose commit raises leaves the table exactly as it was before the window,
\* with none of the window's records.
C24_WindowAllOrNothing ==
    [][FailedWindowStep => store' = store]_vars

\* The commit of a window was rejected because one of its records repeats a
\* stored hash, while another of its records is new; the new one is not in
\* the table.
C24_Witness ==
    /\ WindowAttempted
    /\ ~win.committed
    /\ ~win.fault
    /\ BatchHashes(win.batches) \cap run.storedAtStart # {}
    /\ BatchHashes(win.batches) \ StoredHashes(store) # {}

\* ------------------------------------------------------------------- C23
\* Number of times block b has been requested in the current invocation.
RequestCount(b) ==
    Cardinality({k \in 1..Len(run.requested) :
                    b \in RequestedBlocks(run.requested[k].lo, run.requested[k].hi)})

\* C23. Within one invocation over [start, end] no block is requested twice
\* and no block outside the range is requested, every window starts at
\* start + k * BATCH_SIZE, and once the scan has ended every block of the
\* range has been requested exactly once, whatever windows failed.
C23_EveryBlockRequestedOnce ==
    /\ \A k \in 1..Len(run.requested) :
          /\ run.requested[k].lo = start_block + (k - 1) * BATCH_SIZE
          /\ RequestedBlocks(run.requested[k].lo, run.requested[k].hi)
                \subseteq start_block..end_block
    /\ \A b \in start_block..end_block : RequestCount(b) <= 1
    /\ RunCompleted => \A b \in start_block..end_block : RequestCount(b) = 1

\* A scan of two windows has ended, the first of which failed to commit.
C23_Witness ==
    /\ RunCompleted
    /\ Len(run.requested) = 2
    /\ run.rejected
    /\ end_block - start_block >= BATCH_SIZE

\* ------------------------------------------------------------------- C25
\* Row i of the table after the step has just entered the processed state.
BecomesProcessed(i) ==
    /\ store'[i].processed = 1
    /\ i <= Len(store) => store[i].processed = 0

\* C25. A record is marked as processed only after decode_batch returned
\* successfully for it in the same run: every step of the pipeline that puts
\* a row in the processed state follows a successful decode attempt on that
\* row, so no row whose decode raised and no row that was never attempted
\* becomes processed.
C25_ProcessedOnlyAfterDecode ==
    [][\A i \in 1..Len(store') :
          BecomesProcessed(i) =>
              \E k \in 1..Len(attempted') :
                  attempted'[k].id = store'[i].id /\ attempted'[k].ok]_vars

\* A decode phase over several records has ended, the decode of the first
\* raised, and neither that record nor the ones after it are processed.
C25_Witness ==
    /\ DecodePhaseEnded
    /\ Len(attempted) >= 2
    /\ ~attempted[1].ok
    /\ \A i \in 1..Len(store) : store[i].processed = 0

\* ------------------------------------------------------------------- C21
\* The last direct call was export_batches.
ExportCalled == call.op = "export_batches"

\* The stored record of that transaction hash has been decoded successfully
\* (it is in the processed state).
IsDecoded(st, h) ==
    \E i \in 1..Len(st) : st[i].transaction_hash = h /\ st[i].processed = 1

\* C21. The export holds only records that have been decoded successfully,
\* never a record whose decode failed or that is still pending.
C21_ExportOnlyDecoded ==
    ExportCalled =>
        \A i \in 1..Len(call.out.value) :
            IsDecoded(store, call.out.value[i].transaction_hash)

\* ------------------------------------------------------------------- C22
\* C22. When fetch_batches is called with no end block, the latest block
\* height is queried exactly once in the invocation, end_block holds the
\* height read at that moment and never follows the chain head, and every
\* window of the invocation ends at or before it, also when the head grows
\* during the scan.
C22_EndResolvedOnce ==
    (runs > 0 /\ run.endArg = None) =>
        /\ run.latestQueries = 1
        /\ end_block \in Heads
        /\ end_block <= head
        /\ \A k \in 1..Len(run.requested) : run.requested[k].hi <= end_block

\* A scan without end block is under way, its first window has been
\* attempted, and the chain head has grown past the end resolved at the
\* start.
C22_Witness ==
    /\ pc = "scanning"
    /\ run.endArg = None
    /\ attempts = 1
    /\ head > end_block

\* ------------------------------------------------------------------- C26
\* The step is a direct call of mark_as_processed.
MarkStep == ncalls' = ncalls + 1 /\ call'.op = "mark_as_processed"

\* C26. The processing state only moves forward: in every step of every
\* operation the rows present stay in the table with their id, hash and
\* block, none goes back from processed to unprocessed, every row added is
\* unprocessed, and mark_as_processed adds nothing and changes no row but
\* the one of the given id (no row at all for an unknown id).
C26_ProcessingStateForwardOnly ==
    [][ /\ Len(store') >= Len(store)
        /\ \A i \in 1..Len(store) :
              /\ store'[i].id = store[i].id
              /\ store'[i].transaction_hash = store[i].transaction_hash
              /\ store'[i].block_number = store[i].block_number
              /\ store'[i].processed >= store[i].processed
        /\ \A i \in (Len(store) + 1)..Len(store') : store'[i].processed = 0
        /\ MarkStep =>
              /\ Len(store') = Len(store)
              /\ \A i \in 1..Len(store) :
                    store[i].id # call'.input => store'[i] = store[i]
      ]_vars

\* mark_as_processed has been called on the second of several rows: that
\* row is processed, the row before it is not.
C26_Witness ==
    /\ call.op = "mark_as_processed"
    /\ call.input = 2
    /\ Len(store) >= 2
    /\ store[2].processed = 1
    /\ store[1].processed = 0

====
